---- MODULE Spec2Model ----
(***************************************************************************)
(* deck.gl PolygonTesselator (solid-polygon-layer/polygon-tesselator.js,   *)
(* concatenated into src/src/core/controllers/map-controller.js).          *)
(*                                                                         *)
(* JavaScript arrays are modelled as TLA+ sequences; JS index k is the     *)
(* sequence position k + 1.  Numbers are integers.  A typed array is a     *)
(* record [type, gen, data]: gen counts the allocations of that attribute  *)
(* (array identity), data are the elements after the conversion the typed  *)
(* array applies on every store.                                           *)
(***************************************************************************)
EXTENDS Integers, Sequences, FiniteSets, TLC

\* ------------------------------------------------------------------ bounds
\* Polygons per PolygonSet handed to the constructor.
MaxPolygons == 2
\* indices() calls followed per Tesselator (each returns a fresh buffer).
MaxIndicesCalls == 2

\* ------------------------------------------------------------ JS numbers
Abs(x) == IF x < 0 THEN -x ELSE x

TWO24 == 256 * 256 * 256

RECURSIVE ulpOf(_, _)
\* the spacing of float32 values around a magnitude m >= 2^24
ulpOf(m, u) == IF m < TWO24 * u THEN u ELSE ulpOf(m, 2 * u)

\* Math.fround on an integer: 24 significant bits, round to nearest, ties to even
fround(x) ==
  IF Abs(x) < TWO24 THEN x
  ELSE LET m == Abs(x)
           u == ulpOf(m, 1)
           q == m \div u
           r == m % u
           n == IF 2 * r > u \/ (2 * r = u /\ q % 2 = 1) THEN q + 1 ELSE q
       IN  IF x < 0 THEN -(n * u) ELSE n * u

\* A JS value that need not be a finite number (colour channels): <<tag, n>>
Num(n) == <<"num", n>>
UNDEFINED == <<"undefined", 0>>
NAN == <<"NaN", 0>>
INFINITY == <<"Infinity", 0>>
NumberIsFinite(v) == v[1] = "num"

\* ------------------------------------------------------------ typed arrays
Undefined == [type |-> "undefined", gen |-> 0, data |-> <<>>]
IsDefined(a) == a.type # "undefined"

Zeros(n) == [k \in 1..n |-> 0]
NewArray(type, gen, n) == [type |-> type, gen |-> gen, data |-> Zeros(n)]

\* the conversion a store into a Uint8ClampedArray applies to a JS value
ToUint8Clamp(v) ==
  IF v[1] = "num" THEN (IF v[2] < 0 THEN 0 ELSE IF v[2] > 255 THEN 255 ELSE v[2])
  ELSE IF v[1] = "Infinity" THEN 255
  ELSE 0

\* target[k] = v on a typed array's data: a store outside the array is ignored
Put(data, k, v) == IF k >= 0 /\ k < Len(data) THEN [data EXCEPT ![k + 1] = v] ELSE data
At(data, k) == data[k + 1]

\* the conversion a store into a typed array of the given type applies
Convert(type, v) ==
  IF type = "Uint8ClampedArray" THEN ToUint8Clamp(v)
  ELSE IF type = "Float32Array" THEN fround(v)
  ELSE IF type = "Uint16Array" THEN v % (256 * 256)
  ELSE v  \* Uint32Array: the indices of the model stay far below 2^32

\* ------------------------------------------------- experimental utilities
\* get(container, key) and count(container) of core/experimental
get(container, key) == container[key + 1]
count(container) == Len(container)

RECURSIVE fillFrom(_, _, _, _, _)
fillFrom(target, source, start, total, copied) ==
  IF copied >= total THEN target
  ELSE fillFrom([target EXCEPT !.data =
                   Put(@, start + copied,
                       Convert(target.type, source[(copied % Len(source)) + 1]))],
                source, start, total, copied + 1)

\* fillArray({target, source, start, count}): source repeated count times from start
fillArray(target, source, start, cnt) ==
  fillFrom(target, source, start, cnt * Len(source), 0)

\* ------------------------------------------------------------ ./polygon
\* A polygon is [shape, data]: shape "ring" is a simple polygon (data is a
\* sequence of points), shape "rings" a complex one (data is a sequence of
\* rings, ring 0 the exterior, the others holes).  A point is <<x, y>> or
\* <<x, y, z>>.
MIN_RING_POINTS == 3

isSimple(polygon) == polygon.shape = "ring"

Rings(polygon) == IF isSimple(polygon) THEN <<polygon.data>> ELSE polygon.data

\* Polygon.normalize fails on a ring of fewer than 3 points
InvalidGeometry(polygon) ==
  \E r \in 1..Len(Rings(polygon)) : count(Rings(polygon)[r]) < MIN_RING_POINTS

normalize(polygon) == [shape |-> "rings", data |-> Rings(polygon)]

RECURSIVE Sum(_)
Sum(ns) == IF ns = <<>> THEN 0 ELSE Head(ns) + Sum(Tail(ns))

\* the number of points of each ring
ringSizes(polygon) == [r \in 1..Len(Rings(polygon)) |-> count(Rings(polygon)[r])]

\* Polygon.getVertexCount
getVertexCount(polygon) ==
  IF isSimple(polygon) THEN count(polygon.data) ELSE Sum(ringSizes(polygon))

\* ----------------------------------------------------------- the inputs
TRIANGLE == [shape |-> "ring", data |-> << <<0, 0>>, <<4, 0>>, <<0, 4>> >>]
\* three collinear points: a zero-area (degenerate) polygon
COLLINEAR == [shape |-> "ring", data |-> << <<0, 0>>, <<1, 0>>, <<2, 0>> >>]
\* a square with a triangular hole, 3D points
HOLED == [shape |-> "rings", data |->
           << << <<0, 0, 1>>, <<8, 0, 1>>, <<8, 8, 1>>, <<0, 8, 1>> >>,
              << <<2, 2, 1>>, <<2, 4, 1>>, <<4, 2, 1>> >> >>]
\* coordinates that float32 cannot represent (2^24 + 1, 2^24 + 3)
FAR == [shape |-> "ring", data |->
         << <<TWO24 + 1, 0>>, <<TWO24 + 3, 0, 2>>, <<TWO24 + 1, 3>> >>]
\* a ring of two points
SHORT == [shape |-> "ring", data |-> << <<0, 0>>, <<1, 1>> >>]

\* the polygons of valid geometry, in a cycle: a PolygonSet is a window of it
Cycle == <<HOLED, COLLINEAR, FAR, TRIANGLE>>

Window(r, n) == [k \in 1..n |-> Cycle[((r + k - 1) % Len(Cycle)) + 1]]

ValidSets == {Window(r, n) : r \in 0..(Len(Cycle) - 1), n \in 0..MaxPolygons}

InsertAt(s, k, e) == SubSeq(s, 1, k) \o <<e>> \o SubSeq(s, k + 1, Len(s))

\* the same with the two-point ring put in at any place
PolygonSets ==
  ValidSets \cup UNION {{InsertAt(s, k, SHORT) : k \in 0..Len(s)} :
                          s \in {t \in ValidSets : Len(t) < MaxPolygons}}

\* ------------------------------------------------------ geometry counter
RECURSIVE getPointCount(_)
\* polygons.reduce((points, polygon) => points + Polygon.getVertexCount(polygon), 0)
getPointCount(polygons) ==
  IF polygons = <<>> THEN 0
  ELSE getPointCount(SubSeq(polygons, 1, Len(polygons) - 1))
         + getVertexCount(polygons[Len(polygons)])

RECURSIVE offsetsFrom(_, _, _)
offsetsFrom(polygons, offsets, offset) ==
  IF Len(offsets) = count(polygons) + 1 THEN offsets
  ELSE LET i == Len(offsets) - 1
           next == offset + getVertexCount(polygons[i + 1])
       IN  offsetsFrom(polygons, Append(offsets, next), next)

getPolygonOffsetsBug(polygons) ==
  \* (mutant) the running offset is overwritten, not accumulated
  [k \in 1..(count(polygons) + 1) |->
     IF k = 1 THEN 0 ELSE getVertexCount(polygons[k - 1])]

\* offsets[0] = 0; offsets[i + 1] = offset += Polygon.getVertexCount(polygon)
getPolygonOffsets(polygons) == offsetsFrom(polygons, <<0>>, 0)

\* ------------------------------------------------------------- picking
getPickingColorBug(index) ==
  \* (mutant) the index itself is encoded, so polygon 0 gets (0, 0, 0)
  << index % 256, (index \div 256) % 256, ((index \div 256) \div 256) % 256 >>

getPickingColor(index) ==
  << (index + 1) % 256,
     ((index + 1) \div 256) % 256,
     (((index + 1) \div 256) \div 256) % 256 >>

NumAll(s) == [k \in 1..Len(s) |-> Num(s[k])]

\* the loop's body: the polygon's colour over its vertexCount slots from i
pickPolygon(attribute, i, polygonIndex, vertexCount) ==
  fillArray(attribute, NumAll(getPickingColor(polygonIndex)), i, vertexCount)

RECURSIVE pickingFrom(_, _, _, _)
pickingFrom(polygons, attribute, i, polygonIndex) ==
  IF polygonIndex >= count(polygons) THEN attribute
  ELSE LET vertexCount == getVertexCount(polygons[polygonIndex + 1])
       IN  pickingFrom(polygons,
                       pickPolygon(attribute, i, polygonIndex, vertexCount),
                       i + 3 * vertexCount,
                       polygonIndex + 1)

calculatePickingColors(polygons, pointCount) ==
  pickingFrom(polygons, NewArray("Uint8ClampedArray", 1, pointCount * 3), 0, 0)

\* --------------------------------------------------------------- earcut
\* earcut(data, holeIndices, 3): ear clipping over a circular list of nodes,
\* here a sequence of [u, i, x, y] (u the node's identity, i its vertex index,
\* already divided by the stride).  The z-order hashing of large inputs is
\* left out (it changes speed, not the result), and so are the last two
\* repair passes (cureLocalIntersections, splitEarcut), which only act on
\* self-intersecting input: no polygon of the Catalogue reaches them.
Pos(L, u) == CHOOSE k \in 1..Len(L) : L[k].u = u
NextPos(L, k) == (k % Len(L)) + 1
PrevPos(L, k) == IF k = 1 THEN Len(L) ELSE k - 1
Remove(L, k) == SubSeq(L, 1, k - 1) \o SubSeq(L, k + 1, Len(L))

EarNode(data, k) == [u |-> k, i |-> k, x |-> data[3 * k + 1], y |-> data[3 * k + 2]]

\* signed area of a triangle
area(p, q, r) == (q.y - p.y) * (r.x - q.x) - (q.x - p.x) * (r.y - q.y)
equals(p1, p2) == p1.x = p2.x /\ p1.y = p2.y

pointInTriangle(ax, ay, bx, by, cx, cy, px, py) ==
  /\ (cx - px) * (ay - py) - (ax - px) * (cy - py) >= 0
  /\ (ax - px) * (by - py) - (bx - px) * (ay - py) >= 0
  /\ (bx - px) * (cy - py) - (cx - px) * (by - py) >= 0

RECURSIVE signedAreaFrom(_, _, _, _)
signedAreaFrom(data, i, j, end) ==
  IF i >= end THEN 0
  ELSE (data[3 * j + 1] - data[3 * i + 1]) * (data[3 * i + 2] + data[3 * j + 2])
         + signedAreaFrom(data, i + 1, i, end)

signedArea(data, start, end) == signedAreaFrom(data, start, end - 1, end)

\* a circular list of the vertices start..end-1 in the given winding order;
\* the result is [list, at], at the node the code returns (the last inserted)
linkedList(data, start, end, clockwise) ==
  IF start >= end THEN [list |-> <<>>, at |-> -1]
  ELSE LET n == end - start
           forward == clockwise = (signedArea(data, start, end) > 0)
           L == [k \in 1..n |->
                   EarNode(data, IF forward THEN start + k - 1 ELSE end - k)]
       IN  IF n > 1 /\ equals(L[n], L[1])
           THEN [list |-> SubSeq(L, 1, n - 1), at |-> L[1].u]
           ELSE [list |-> L, at |-> L[n].u]

RECURSIVE filterLoop(_, _, _)
filterLoop(L, p, end) ==
  LET k == Pos(L, p)
      pv == L[PrevPos(L, k)]
      nx == L[NextPos(L, k)]
  IN  IF equals(L[k], nx) \/ area(pv, L[k], nx) = 0
      THEN IF Len(L) <= 2 THEN [list |-> <<>>, at |-> -1]
           ELSE filterLoop(Remove(L, k), pv.u, pv.u)
      ELSE IF nx.u = end THEN [list |-> L, at |-> end]
           ELSE filterLoop(L, nx.u, end)

\* eliminate colinear or duplicate points
filterPoints(L, start, end) ==
  IF L = <<>> THEN [list |-> <<>>, at |-> -1] ELSE filterLoop(L, start, end)

isEar(L, k) ==
  LET a == L[PrevPos(L, k)]
      b == L[k]
      c == L[NextPos(L, k)]
  IN  /\ area(a, b, c) < 0
      /\ \A q \in 1..Len(L) :
           (L[q].u \notin {a.u, b.u, c.u}) =>
             ~(/\ pointInTriangle(a.x, a.y, b.x, b.y, c.x, c.y, L[q].x, L[q].y)
               /\ area(L[PrevPos(L, q)], L[q], L[NextPos(L, q)]) >= 0)

RECURSIVE earcutLoop(_, _, _, _, _)
earcutLoop(L, ear, stop, pass, triangles) ==
  IF Len(L) < 3 THEN triangles
  ELSE LET k == Pos(L, ear)
           pv == L[PrevPos(L, k)]
           nx == L[NextPos(L, k)]
           nn == L[NextPos(L, NextPos(L, k))]
       IN  IF isEar(L, k)
           THEN earcutLoop(Remove(L, k), nn.u, nn.u, pass,
                           triangles \o <<pv.i, L[k].i, nx.i>>)
           ELSE IF nx.u = stop
                THEN IF pass = 0
                     THEN LET f == filterPoints(L, nx.u, nx.u)
                          IN  IF f.list = <<>> THEN triangles
                              ELSE earcutLoop(f.list, f.at, f.at, 1, triangles)
                     ELSE triangles
                ELSE earcutLoop(L, nx.u, stop, pass, triangles)

RECURSIVE leftmostFrom(_, _, _)
leftmostFrom(L, k, best) ==
  IF k > Len(L) THEN best
  ELSE leftmostFrom(L, k + 1, IF L[k].x < L[best].x THEN k ELSE best)

\* the hole's leftmost node, looked for from the list's start node
getLeftmost(L, at) ==
  LET s == Pos(L, at)
      R == SubSeq(L, s, Len(L)) \o SubSeq(L, 1, s - 1)
  IN  R[leftmostFrom(R, 1, 1)].u

locallyInside(L, ka, b) ==
  LET a == L[ka]
      ap == L[PrevPos(L, ka)]
      an == L[NextPos(L, ka)]
  IN  IF area(ap, a, an) < 0
      THEN area(a, b, an) >= 0 /\ area(a, ap, b) >= 0
      ELSE area(a, b, ap) < 0 \/ area(a, an, b) < 0

\* The leftward ray from the hole point (hx, hy) against every edge of the
\* outer ring, from the node at.  The crossing abscissa x is the fraction
\* xn / xd (xd > 0); q is the best crossing so far, [none, n, d, m], m the
\* position of the edge's endpoint of lesser x.  direct is the node returned
\* at once when the ray passes through a vertex with x = hx.
RECURSIVE bridgeScan(_, _, _, _, _, _)
bridgeScan(L, k, steps, hx, hy, q) ==
  IF steps = 0 \/ q.direct # 0 THEN q
  ELSE LET p == L[k]
           pn == L[NextPos(L, k)]
           xd == p.y - pn.y
           xn == p.x * xd - (hy - p.y) * (pn.x - p.x)
           hit == /\ hy <= p.y /\ hy >= pn.y /\ pn.y # p.y
                  /\ xn <= hx * xd
                  /\ (q.none \/ xn * q.d > q.n * xd)
           q2 == IF ~hit THEN q
                 ELSE [none |-> FALSE, n |-> xn, d |-> xd,
                       m |-> IF p.x < pn.x THEN k ELSE NextPos(L, k),
                       direct |-> IF xn = hx * xd /\ hy = p.y THEN k
                                  ELSE IF xn = hx * xd /\ hy = pn.y THEN NextPos(L, k)
                                  ELSE 0]
       IN  bridgeScan(L, NextPos(L, k), steps - 1, hx, hy, q2)

\* among the points inside the triangle (hole point, crossing, m) the one of
\* minimum angle with the ray; tn / td is the least tangent so far
RECURSIVE bridgeRefine(_, _, _, _, _, _, _, _)
bridgeRefine(L, k, stop, hole, q, m, tn, td) ==
  IF k = stop THEN m
  ELSE LET p == L[k]
           hx == hole.x
           hy == hole.y
           mx == L[stop].x
           my == L[stop].y
           inside ==
             /\ hx >= p.x /\ p.x >= mx /\ hx # p.x
             /\ pointInTriangle(IF hy < my THEN hx * q.d ELSE q.n, hy * q.d,
                                mx * q.d, my * q.d,
                                IF hy < my THEN q.n ELSE hx * q.d, hy * q.d,
                                p.x * q.d, p.y * q.d)
           pn == Abs(hy - p.y)
           pd == hx - p.x
           better ==
             /\ inside
             /\ (td = 0 \/ pn * td < tn * pd \/ (pn * td = tn * pd /\ p.x > L[m].x))
             /\ locallyInside(L, k, hole)
       IN  IF better
           THEN bridgeRefine(L, NextPos(L, k), stop, hole, q, k, pn, pd)
           ELSE bridgeRefine(L, NextPos(L, k), stop, hole, q, m, tn, td)

\* the position in the outer ring of the node to bridge the hole to, 0 if none
findHoleBridge(hole, L, at) ==
  LET q == bridgeScan(L, Pos(L, at), Len(L), hole.x, hole.y,
                      [none |-> TRUE, n |-> 0, d |-> 1, m |-> 0, direct |-> 0])
  IN  IF q.direct # 0 THEN q.direct
      ELSE IF q.none THEN 0
      ELSE IF q.n = hole.x * q.d THEN PrevPos(L, q.m)
      ELSE bridgeRefine(L, NextPos(L, q.m), q.m, hole, q, q.m, 0, 0)

\* splitPolygon(a, b): the outer ring and the hole ring joined by a bridge;
\* a and b are doubled (the copies a2, b2 get fresh identities fresh, fresh + 1)
splitPolygon(L, ka, H, hb, fresh) ==
  LET kb == Pos(H, hb)
      a2 == [L[ka] EXCEPT !.u = fresh]
      b2 == [H[kb] EXCEPT !.u = fresh + 1]
  IN  [list |-> SubSeq(L, 1, ka) \o SubSeq(H, kb, Len(H)) \o SubSeq(H, 1, kb - 1)
                  \o <<b2, a2>> \o SubSeq(L, ka + 1, Len(L)),
       at |-> b2.u]

\* the node after node u in its list
NextU(L, u) == L[NextPos(L, Pos(L, u))].u

\* filterPoints(node, node.next)
filterFrom(L, at) == filterPoints(L, at, NextU(L, at))

\* the list filterPoints left, the list as it was when it left none
keepOr(f, list) == IF f.list = <<>> THEN list ELSE f.list

\* filterPoints(b, b.next) on the bridged ring, then eliminateHoles' own
\* filterPoints(outerNode, outerNode.next)
bridgeHole(s, at) ==
  filterFrom(keepOr(filterPoints(s.list, s.at, NextU(s.list, s.at)), s.list), at)

eliminateAt(H, hb, L, at, fresh, ka) ==
  IF ka = 0 THEN filterFrom(L, at)
  ELSE bridgeHole(splitPolygon(L, ka, H, hb, fresh), at)

\* eliminateHole followed by the filterPoints of eliminateHoles' loop
eliminateHole(H, hb, L, at, fresh) ==
  eliminateAt(H, hb, L, at, fresh, findHoleBridge(H[Pos(H, hb)], L, at))

\* the holes' rings with their leftmost nodes, in holeIndices order
holeQueue(data, holeIndices) ==
  [h \in 1..Len(holeIndices) |->
     LET start == holeIndices[h]
         end == IF h < Len(holeIndices) THEN holeIndices[h + 1] ELSE Len(data) \div 3
         list == linkedList(data, start, end, FALSE)
     IN  [list |-> list.list, left |-> getLeftmost(list.list, list.at)]]

RECURSIVE sortByX(_)
\* queue.sort(compareX): by the leftmost node's x
sortByX(queue) ==
  IF Len(queue) <= 1 THEN queue
  ELSE LET X(e) == e.list[Pos(e.list, e.left)].x
           least == CHOOSE k \in 1..Len(queue) :
                      \A j \in 1..Len(queue) : X(queue[k]) < X(queue[j])
                                                \/ (X(queue[k]) = X(queue[j]) /\ k <= j)
       IN  <<queue[least]>> \o sortByX(Remove(queue, least))

RECURSIVE eliminateFrom(_, _, _, _)
eliminateFrom(queue, outer, h, fresh) ==
  IF h > Len(queue) \/ outer.list = <<>> THEN outer
  ELSE eliminateFrom(queue,
                     eliminateHole(queue[h].list, queue[h].left, outer.list, outer.at,
                                   fresh + 2 * h),
                     h + 1, fresh)

eliminateHoles(data, holeIndices, outer) ==
  eliminateFrom(sortByX(holeQueue(data, holeIndices)), outer, 1, Len(data) \div 3)

\* earcutLinked on the ring left after the holes are eliminated
earcutRing(ring) ==
  IF ring.list = <<>> THEN <<>>
  ELSE earcutLoop(ring.list, ring.at, ring.at, 0, <<>>)

\* if (hasHoles) outerNode = eliminateHoles(data, holeIndices, outerNode, dim)
outerRing(data, holeIndices, outerNode) ==
  IF Len(holeIndices) > 0 /\ outerNode.list # <<>>
  THEN eliminateHoles(data, holeIndices, outerNode)
  ELSE outerNode

\* the triangles of the polygon as vertex indices, three per triangle
earcut(data, holeIndices) ==
  earcutRing(outerRing(data, holeIndices,
                       linkedList(data, 0,
                                  IF Len(holeIndices) > 0 THEN holeIndices[1]
                                  ELSE Len(data) \div 3,
                                  TRUE)))

\* ------------------------------------------------- triangulator integration
\* flattenVertices of core/experimental: the points of a ring as x, y, z
\* triples, a missing third coordinate padded with 0
RECURSIVE flattenVertices(_)
flattenVertices(ring) ==
  IF ring = <<>> THEN <<>>
  ELSE LET v == Head(ring)
       IN  <<v[1], v[2], IF Len(v) >= 3 THEN v[3] ELSE 0>> \o flattenVertices(Tail(ring))

RECURSIVE flattenVertices2(_)
\* every value of a complex polygon is a container (a ring), flattened in turn
flattenVertices2(nestedArray) ==
  IF nestedArray = <<>> THEN <<>>
  ELSE flattenVertices(Head(nestedArray)) \o flattenVertices2(Tail(nestedArray))

RECURSIVE holeStarts(_, _, _)
holeStarts(complexPolygon, k, polygonStartIndex) ==
  IF k > Len(complexPolygon) THEN <<>>
  ELSE <<polygonStartIndex + count(complexPolygon[k])>>
         \o holeStarts(complexPolygon, k + 1, polygonStartIndex + count(complexPolygon[k]))

\* the offset of each hole in the flattened array; null (<<>>) without holes
getHoleIndices(complexPolygon) ==
  IF count(complexPolygon) > 1
  THEN LET all == holeStarts(complexPolygon, 1, 0)
       IN  SubSeq(all, 1, Len(all) - 1)
  ELSE <<>>

calculateSurfaceIndices(complexPolygon) ==
  LET holeIndices == getHoleIndices(complexPolygon.data)
      verts == flattenVertices2(complexPolygon.data)
  IN  earcut(verts, holeIndices)

\* the triangles of a polygon of the given ring sizes, by the counting formula
triangleCountOfSizes(sizes) ==
  LET numRings == Len(sizes)
      v == Sum(sizes)
  IN  IF numRings = 0 THEN 0 ELSE v - 2 * numRings + 2 * (numRings - 1)

\* Polygon.getTriangleCount: counted from the ring sizes, before triangulation
PolygonGetTriangleCount(polygon) == triangleCountOfSizes(ringSizes(polygon))

RECURSIVE getTriangleCount(_)
\* polygons.reduce((n, polygon) => n + Polygon.getTriangleCount(polygon), 0)
getTriangleCount(polygons) ==
  IF polygons = <<>> THEN 0
  ELSE getTriangleCount(SubSeq(polygons, 1, Len(polygons) - 1))
         + PolygonGetTriangleCount(polygons[Len(polygons)])

UINT16_MAX == 65535

\* function calculateIndices({polygons, IndexType = Uint32Array})
DefaultIndexType == "Uint32Array"

\* IndexType === Uint16Array && indexCount > 65535
indexOverflow(IndexType, indexCount) ==
  IndexType = "Uint16Array" /\ indexCount > UINT16_MAX

RECURSIVE writeIndices(_, _, _, _, _)
\* for (const index of ...) attribute[i++] = index + offsets[polygonIndex]
writeIndices(attribute, local, offset, i, k) ==
  IF k > Len(local) THEN attribute
  ELSE writeIndices([attribute EXCEPT !.data =
                       Put(@, i, Convert(attribute.type, local[k] + offset))],
                    local, offset, i + 1, k + 1)

RECURSIVE indicesFrom(_, _, _, _, _)
indicesFrom(polygons, offsets, attribute, i, polygonIndex) ==
  IF polygonIndex >= count(polygons) THEN attribute
  ELSE LET local == calculateSurfaceIndices(polygons[polygonIndex + 1])
       IN  indicesFrom(polygons, offsets,
                       writeIndices(attribute, local, offsets[polygonIndex + 1], i, 1),
                       i + Len(local), polygonIndex + 1)

calculateIndicesBug(polygons, IndexType, gen) ==
  \* (mutant) every polygon is triangulated twice, for its count and its indices
  LET indexCount == 3 * getTriangleCount(polygons)
      offsets == getPolygonOffsets(polygons)
  IN  [error |-> "none",
       attribute |-> indicesFrom(polygons, offsets,
                                 NewArray(IndexType, gen, indexCount), 0, 0),
       triangulated |-> [k \in 1..count(polygons) |-> 2]]

\* [error, attribute, triangulated]: triangulated are the calls of
\* calculateSurfaceIndices made for each polygon
calculateIndices(polygons, IndexType, gen) ==
  LET indexCount == 3 * getTriangleCount(polygons)
      offsets == getPolygonOffsets(polygons)
  IN  IF indexOverflow(IndexType, indexCount)
      THEN [error |-> "Error: Vertex count exceeds browser's limit",
            attribute |-> Undefined, triangulated |-> [k \in 1..count(polygons) |-> 0]]
      ELSE [error |-> "none",
            attribute |-> indicesFrom(polygons, offsets,
                                      NewArray(IndexType, gen, indexCount), 0, 0),
            triangulated |-> [k \in 1..count(polygons) |-> 1]]

\* ----------------------------------------------------- position builder
RECURSIVE ringVisits(_, _)
ringVisits(ring, vertexIndex) ==
  IF vertexIndex >= count(ring) THEN <<>>
  ELSE <<[vertex |-> get(ring, vertexIndex), vertexIndex |-> vertexIndex]>>
         \o ringVisits(ring, vertexIndex + 1)

RECURSIVE ringsVisits(_)
ringsVisits(rings) ==
  IF rings = <<>> THEN <<>> ELSE ringVisits(Head(rings), 0) \o ringsVisits(Tail(rings))

\* the visitor's calls, in order, as [vertex, vertexIndex]
forEachVertex(polygon) ==
  IF isSimple(polygon) THEN ringVisits(polygon.data, 0) ELSE ringsVisits(polygon.data)

\* a height accessor: absent (null) or the benchmark's polygonIndex => polygonIndex
HeightAccessors == {"null", "index"}
callGetHeight(getHeight, polygonIndex) == polygonIndex

NoVertex == [set |-> FALSE, x |-> 0, y |-> 0, z |-> 0, xLow |-> 0, yLow |-> 0]

F32PutBug(data, k, v) ==
  \* (mutant) the value is added to the slot instead of replacing it
  IF k >= 0 /\ k < Len(data) THEN Put(data, k, fround(At(data, k) + v)) ELSE data

F32Put(data, k, v) == Put(data, k, fround(v))

popStartVertexBug(c, extruded, fp64) ==
  \* (mutant) the start vertex is dropped without being written after the last
  [c EXCEPT !.startVertex = NoVertex]

popStartVertex(c, extruded, fp64) ==
  IF c.startVertex.set /\ extruded
  THEN [c EXCEPT
         !.nextPositions = F32Put(F32Put(F32Put(@, c.nextI, c.startVertex.x),
                                         c.nextI + 1, c.startVertex.y),
                                  c.nextI + 2, c.startVertex.z),
         !.nextI = @ + 3,
         !.nextPositions64xyLow =
            IF fp64 THEN F32Put(F32Put(@, c.nextJ, c.startVertex.xLow),
                                c.nextJ + 1, c.startVertex.yLow)
            ELSE @,
         !.nextJ = IF fp64 THEN @ + 2 ELSE @,
         !.startVertex = NoVertex]
  ELSE [c EXCEPT !.startVertex = NoVertex]

lowPartBug(x) ==
  \* (mutant) the difference is taken the other way round
  fround(x) - x

\* xLow = x - Math.fround(x)
lowPart(x) == x - fround(x)

\* the visitor: one vertex of one ring
visitVertex(c, vertex, vertexIndex, height, extruded, fp64) ==
  LET x == get(vertex, 0)
      y == get(vertex, 1)
      z == (IF Len(vertex) >= 3 THEN get(vertex, 2) ELSE 0) + height
      xLow == IF fp64 THEN lowPart(x) ELSE 0
      yLow == IF fp64 THEN lowPart(y) ELSE 0
      c1 == [c EXCEPT
               !.positions = F32Put(F32Put(F32Put(@, c.i, x), c.i + 1, y), c.i + 2, z),
               !.i = @ + 3,
               !.positions64xyLow =
                  IF fp64 THEN F32Put(F32Put(@, c.j, xLow), c.j + 1, yLow) ELSE @,
               !.j = IF fp64 THEN @ + 2 ELSE @]
      c2 == IF extruded /\ vertexIndex > 0
            THEN [c1 EXCEPT
                    !.nextPositions =
                       F32Put(F32Put(F32Put(@, c1.nextI, x), c1.nextI + 1, y),
                              c1.nextI + 2, z),
                    !.nextI = @ + 3,
                    !.nextPositions64xyLow =
                       IF fp64 THEN F32Put(F32Put(@, c1.nextJ, xLow), c1.nextJ + 1, yLow)
                       ELSE @,
                    !.nextJ = IF fp64 THEN @ + 2 ELSE @]
            ELSE c1
  IN  IF vertexIndex = 0
      THEN [popStartVertex(c2, extruded, fp64) EXCEPT
              !.startVertex = [set |-> TRUE, x |-> x, y |-> y, z |-> z,
                               xLow |-> xLow, yLow |-> yLow]]
      ELSE c2

RECURSIVE visitAll(_, _, _, _, _, _)
visitAll(c, visits, k, height, extruded, fp64) ==
  IF k > Len(visits) THEN c
  ELSE visitAll(visitVertex(c, visits[k].vertex, visits[k].vertexIndex,
                            height, extruded, fp64),
                visits, k + 1, height, extruded, fp64)

polygonHeightBug(getHeight, extruded, polygonIndex) ==
  \* (mutant) the accessor is called whether or not extrusion is on
  IF getHeight = "null" THEN [error |-> TRUE, height |-> 0, calls |-> 0]
  ELSE [error |-> FALSE, height |-> callGetHeight(getHeight, polygonIndex), calls |-> 1]

\* const height = extruded ? getHeight(polygonIndex) : 0
polygonHeight(getHeight, extruded, polygonIndex) ==
  IF ~extruded THEN [error |-> FALSE, height |-> 0, calls |-> 0]
  ELSE IF getHeight = "null" THEN [error |-> TRUE, height |-> 0, calls |-> 0]
  ELSE [error |-> FALSE, height |-> callGetHeight(getHeight, polygonIndex), calls |-> 1]

RECURSIVE positionsFrom(_, _, _, _, _, _)
positionsFrom(c, polygons, polygonIndex, getHeight, extruded, fp64) ==
  IF polygonIndex >= count(polygons) THEN popStartVertex(c, extruded, fp64)
  ELSE LET h == polygonHeight(getHeight, extruded, polygonIndex)
       IN  IF h.error
           THEN [c EXCEPT !.error = "TypeError: getHeight is not a function"]
           ELSE positionsFrom(
                  visitAll([c EXCEPT !.heightCalls = Append(@, h.calls)],
                           forEachVertex(polygons[polygonIndex + 1]), 1,
                           h.height, extruded, fp64),
                  polygons, polygonIndex + 1, getHeight, extruded, fp64)

\* the four buffers after the pass, with its cursors, the accessor calls per
\* polygon and the error that ended it, if any
updatePositions(attributes, polygons, getHeight, extruded, fp64) ==
  positionsFrom([positions |-> attributes.positions.data,
                 positions64xyLow |-> attributes.positions64xyLow.data,
                 nextPositions |-> attributes.nextPositions.data,
                 nextPositions64xyLow |-> attributes.nextPositions64xyLow.data,
                 i |-> 0, j |-> 0, nextI |-> 0, nextJ |-> 0,
                 startVertex |-> NoVertex, heightCalls |-> <<>>, error |-> "none"],
                polygons, 0, getHeight, extruded, fp64)

\* ---------------------------------------------------------- paint builder
\* A colour is [isArray, v]: a JS Array (which parseColor writes to) or
\* another indexable container (a typed array), v its elements as JS values.
SetAt3(v, val) ==
  IF Len(v) >= 4 THEN [v EXCEPT ![4] = val]
  ELSE [k \in 1..4 |-> IF k = 4 THEN val ELSE IF k <= Len(v) THEN v[k] ELSE UNDEFINED]

GetJS(v, key) == IF key < Len(v) THEN v[key + 1] ELSE UNDEFINED

parseColorBug(color) ==
  \* (mutant) a missing alpha is left undefined
  IF color.isArray THEN color
  ELSE [isArray |-> TRUE,
        v |-> <<GetJS(color.v, 0), GetJS(color.v, 1), GetJS(color.v, 2), GetJS(color.v, 3)>>]

\* the array parseColor returns; when color is an Array it is that very array,
\* with color[3] assigned
parseColor(color) ==
  LET c == IF color.isArray THEN color
           ELSE [isArray |-> TRUE,
                 v |-> <<GetJS(color.v, 0), GetJS(color.v, 1),
                         GetJS(color.v, 2), GetJS(color.v, 3)>>]
  IN  [c EXCEPT !.v = SetAt3(@, IF NumberIsFinite(GetJS(c.v, 3)) THEN GetJS(c.v, 3)
                                ELSE Num(255))]

\* const DEFAULT_COLOR = [0, 0, 0, 255]
DEFAULT_COLOR_INIT == [isArray |-> TRUE, v |-> <<Num(0), Num(0), Num(0), Num(255)>>]

ColorAccessors == {"default", "data"}

\* the colour of each datum, as the layer's getColor returns it: an Array of
\* 3 channels, one of 4 with a NaN alpha and channels outside 0..255, a typed
\* array of 3 channels, an Array of 4 channels
colorOf(polygon) ==
  IF polygon = HOLED THEN [isArray |-> TRUE, v |-> <<Num(10), Num(20), Num(30)>>]
  ELSE IF polygon = COLLINEAR
       THEN [isArray |-> TRUE, v |-> <<Num(300), Num(-5), Num(7), NAN>>]
  ELSE IF polygon = FAR THEN [isArray |-> FALSE, v |-> <<Num(1), Num(2), Num(3)>>]
  ELSE [isArray |-> TRUE, v |-> <<Num(10), Num(20), Num(30), Num(40)>>]

RECURSIVE colorsFrom(_, _, _, _)
\* c is [colors, i, data, dflt, calls]: the buffer, the cursor, the colours
\* the accessor hands out (written through by parseColor) and its calls
colorsFrom(c, polygons, getColor, polygonIndex) ==
  IF polygonIndex >= count(polygons) THEN c
  ELSE LET given == IF getColor = "default" THEN c.dflt ELSE c.data[polygonIndex + 1]
           color == parseColor(given)
           vertexCount == getVertexCount(polygons[polygonIndex + 1])
           written == IF given.isArray THEN color ELSE given
       IN  colorsFrom([colors |-> fillArray(c.colors, color.v, c.i, vertexCount),
                       i |-> c.i + Len(color.v) * vertexCount,
                       data |-> IF getColor = "default" THEN c.data
                                ELSE [c.data EXCEPT ![polygonIndex + 1] = written],
                       dflt |-> IF getColor = "default" THEN written ELSE c.dflt,
                       calls |-> Append(c.calls, 1)],
                      polygons, getColor, polygonIndex + 1)

updateColors(colors, polygons, getColor, data, dflt) ==
  colorsFrom([colors |-> colors, i |-> 0, data |-> data, dflt |-> dflt, calls |-> <<>>],
             polygons, getColor, 0)

\* ------------------------------------------------------- the Tesselator
VARIABLES
  phase,          \* "new" before the constructor ran, then "ready" or "failed"
  input,          \* the constructor's argument: the PolygonSet as given
  polygons,       \* this.polygons: the normalized polygons
  pointCount,     \* this.pointCount
  attributes,     \* this.attributes: the cached buffers, Undefined until allocated
  colorData,      \* the colour arrays the layer's getColor hands out, per datum
  DEFAULT_COLOR,  \* the module's shared default colour array
  positionCall,   \* the last updatePositions call: arguments, cursors, error
  colorCall,      \* the last colors call: the accessor given
  indexCall,      \* the last indices call: the buffer returned, the error thrown
  heightCalls,    \* getHeight calls per polygon during the last updatePositions
  colorCalls,     \* getColor calls per polygon during the last colors
  triangulations, \* calculateSurfaceIndices calls per polygon since construction
  indicesCalls,   \* indices() calls since construction
  probe           \* SpecWidth: the layer around the Tesselator; SpecPick: the picking loop

vars == <<phase, input, polygons, pointCount, attributes, colorData, DEFAULT_COLOR,
          positionCall, colorCall, indexCall, heightCalls, colorCalls,
          triangulations, indicesCalls, probe>>

AttributeNames == {"pickingColors", "positions", "nextPositions",
                   "positions64xyLow", "nextPositions64xyLow", "colors"}

\* everFp64: some call so far had fp64 on; repeated: the call before it had
\* the same arguments
NoPositionCall == [called |-> FALSE, fp64 |-> FALSE, extruded |-> FALSE,
                   getHeight |-> "null", error |-> "none",
                   i |-> 0, j |-> 0, nextI |-> 0, nextJ |-> 0,
                   everFp64 |-> FALSE, repeated |-> FALSE]
NoColorCall == [called |-> FALSE, getColor |-> "default"]
NoIndexCall == [called |-> FALSE, ret |-> Undefined, error |-> "none"]
NoProbe == [done |-> FALSE]

\* the Tesselator before its constructor has run
Fresh ==
  /\ phase = "new"
  /\ polygons = <<>>
  /\ pointCount = 0
  /\ attributes = [n \in AttributeNames |-> Undefined]
  /\ DEFAULT_COLOR = DEFAULT_COLOR_INIT
  /\ positionCall = NoPositionCall
  /\ colorCall = NoColorCall
  /\ indexCall = NoIndexCall
  /\ heightCalls = <<>>
  /\ colorCalls = <<>>
  /\ triangulations = <<>>
  /\ indicesCalls = 0

Init ==
  /\ Fresh
  /\ input \in PolygonSets
  /\ colorData = [k \in 1..Len(input) |-> colorOf(input[k])]
  /\ probe = NoProbe

ConstructBug ==
  \* (mutant) a polygon with a short ring is skipped and the rest is built
  /\ phase = "new"
  /\ LET kept == SelectSeq(input, LAMBDA polygon : ~InvalidGeometry(polygon))
         normalized == [k \in 1..Len(kept) |-> normalize(kept[k])]
         points == getPointCount(normalized)
     IN  /\ phase' = "ready"
         /\ polygons' = normalized
         /\ pointCount' = points
         /\ attributes' = [attributes EXCEPT
               !.pickingColors = calculatePickingColors(normalized, points)]
         /\ triangulations' = [k \in 1..Len(kept) |-> 0]
  /\ UNCHANGED <<input, colorData, DEFAULT_COLOR, positionCall, colorCall, indexCall,
                 heightCalls, colorCalls, indicesCalls, probe>>

\* new PolygonTesselator(polygons)
Construct ==
  /\ phase = "new"
  /\ IF \E k \in 1..Len(input) : InvalidGeometry(input[k])
     THEN /\ phase' = "failed"
          /\ UNCHANGED <<polygons, pointCount, attributes, triangulations>>
     ELSE LET normalized == [k \in 1..Len(input) |-> normalize(input[k])]
              points == getPointCount(normalized)
          IN  /\ phase' = "ready"
              /\ polygons' = normalized
              /\ pointCount' = points
              /\ attributes' = [attributes EXCEPT
                    !.pickingColors = calculatePickingColors(normalized, points)]
              /\ triangulations' = [k \in 1..Len(input) |-> 0]
  /\ UNCHANGED <<input, colorData, DEFAULT_COLOR, positionCall, colorCall, indexCall,
                 heightCalls, colorCalls, indicesCalls, probe>>

OrNewBug(attribute, type, n) ==
  \* (mutant) the new array is not kept
  attribute

OrNewFresh(attribute, type, n) ==
  \* (mutant) a new array is allocated on every call
  NewArray(type, attribute.gen + 1, n)

\* attributes.x = attributes.x || new Float32Array(n)
OrNew(attribute, type, n) ==
  IF IsDefined(attribute) THEN attribute ELSE NewArray(type, attribute.gen + 1, n)

lowBufferBug(attribute, fp64, n) ==
  \* (mutant) the low buffer is dropped by an update with fp64 off
  IF fp64 THEN OrNew(attribute, "Float32Array", n) ELSE Undefined

\* if (fp64) { attributes.x64xyLow = attributes.x64xyLow || new Float32Array(n) }
lowBuffer(attribute, fp64, n) ==
  IF fp64 THEN OrNew(attribute, "Float32Array", n) ELSE attribute

\* tesselator.updatePositions({fp64, extruded, getHeight})
UpdatePositions(fp64, extruded, getHeight) ==
  /\ phase = "ready"
  /\ LET a == [attributes EXCEPT
                 !.positions = OrNew(@, "Float32Array", pointCount * 3),
                 !.nextPositions = OrNew(@, "Float32Array", pointCount * 3),
                 !.positions64xyLow = lowBuffer(@, fp64, pointCount * 2),
                 !.nextPositions64xyLow = lowBuffer(@, fp64, pointCount * 2)]
     IN \E r \in {updatePositions(a, polygons, getHeight, extruded, fp64)} :
         /\ attributes' = [a EXCEPT
                 !.positions.data = r.positions,
                 !.nextPositions.data = r.nextPositions,
                 !.positions64xyLow.data = r.positions64xyLow,
                 !.nextPositions64xyLow.data = r.nextPositions64xyLow]
         /\ heightCalls' = r.heightCalls
         /\ positionCall' = [called |-> TRUE, fp64 |-> fp64, extruded |-> extruded,
                             getHeight |-> getHeight, error |-> r.error,
                             i |-> r.i, j |-> r.j, nextI |-> r.nextI, nextJ |-> r.nextJ,
                             everFp64 |-> positionCall.everFp64 \/ fp64,
                             repeated |-> /\ positionCall.called
                                          /\ positionCall.fp64 = fp64
                                          /\ positionCall.extruded = extruded
                                          /\ positionCall.getHeight = getHeight]
  /\ UNCHANGED <<phase, input, polygons, pointCount, colorData, DEFAULT_COLOR,
                 colorCall, indexCall, colorCalls, triangulations, indicesCalls, probe>>

ColorsBug(getColor) ==
  \* (mutant) the colour pass is run over the picking-colour buffer
  /\ phase = "ready"
  /\ \E r \in {updateColors(attributes.pickingColors, polygons, getColor,
                             colorData, DEFAULT_COLOR)} :
         /\ attributes' = [attributes EXCEPT
                 !.colors = OrNew(@, "Uint8ClampedArray", pointCount * 4),
                 !.pickingColors = r.colors]
         /\ colorData' = r.data
         /\ DEFAULT_COLOR' = r.dflt
         /\ colorCalls' = r.calls
         /\ colorCall' = [called |-> TRUE, getColor |-> getColor]
  /\ UNCHANGED <<phase, input, polygons, pointCount, positionCall, indexCall,
                 heightCalls, triangulations, indicesCalls, probe>>

\* tesselator.colors({getColor}); without an accessor x => DEFAULT_COLOR.
\* It returns the colors attribute.
Colors(getColor) ==
  /\ phase = "ready"
  /\ LET a == OrNew(attributes.colors, "Uint8ClampedArray", pointCount * 4)
     IN \E r \in {updateColors(a, polygons, getColor, colorData, DEFAULT_COLOR)} :
         /\ attributes' = [attributes EXCEPT !.colors = r.colors]
         /\ colorData' = r.data
         /\ DEFAULT_COLOR' = r.dflt
         /\ colorCalls' = r.calls
         /\ colorCall' = [called |-> TRUE, getColor |-> getColor]
  /\ UNCHANGED <<phase, input, polygons, pointCount, positionCall, indexCall,
                 heightCalls, triangulations, indicesCalls, probe>>

\* tesselator.indices(): calculateIndices({polygons, indexCount}), so IndexType
\* takes its default, Uint32Array
Indices ==
  /\ phase = "ready"
  /\ indicesCalls < MaxIndicesCalls
  /\ \E r \in {calculateIndices(polygons, DefaultIndexType, indicesCalls + 1)} :
         /\ indexCall' = [called |-> TRUE, ret |-> r.attribute, error |-> r.error]
         /\ triangulations' = [k \in 1..Len(triangulations) |->
                                 triangulations[k] + r.triangulated[k]]
  /\ indicesCalls' = indicesCalls + 1
  /\ UNCHANGED <<phase, input, polygons, pointCount, attributes, colorData,
                 DEFAULT_COLOR, positionCall, colorCall, heightCalls, colorCalls, probe>>

\* the accessors that return a cached attribute as it is
positions == attributes.positions
positions64xyLow == attributes.positions64xyLow
nextPositions == attributes.nextPositions
nextPositions64xyLow == attributes.nextPositions64xyLow
pickingColors == attributes.pickingColors

\* tesselator.vertexPositions(): a fresh array on every call
vertexPositions == NewArray("Float32Array", 1, pointCount * 2)

\* a call of one of these accessors: a read, the Tesselator is left as it is
Read ==
  /\ phase = "ready"
  /\ UNCHANGED vars

Next ==
  \/ Construct
  \/ \E fp64 \in BOOLEAN, extruded \in BOOLEAN, getHeight \in HeightAccessors :
       UpdatePositions(fp64, extruded, getHeight)
  \/ \E getColor \in ColorAccessors : Colors(getColor)
  \/ Indices
  \/ Read

Spec == Init /\ [][Next]_vars

\* ===================================================================
\* The claims, checked under Spec
\* ===================================================================
Ready == phase = "ready"
N == Len(polygons)
offsets == getPolygonOffsets(polygons)

\* the points of polygon p before its ring r
RingStart(p, r) == Sum(SubSeq(ringSizes(polygons[p]), 1, r - 1))
\* the global slot of vertex j (from 0) of ring r of polygon p
Slot(p, r, j) == offsets[p] + RingStart(p, r) + j
Ring(p, r) == polygons[p].data[r]
\* every vertex of the set as <<p, r, j>>
Vertices ==
  {<<p, r, j>> \in (1..N) \X (1..3) \X (0..7) :
     r <= Len(polygons[p].data) /\ j < Len(Ring(p, r))}

RECURSIVE OffsetTriangles(_)
\* the local triangle indices of the first n polygons, each raised by its offset
OffsetTriangles(n) ==
  IF n = 0 THEN <<>>
  ELSE LET local == calculateSurfaceIndices(polygons[n])
       IN  OffsetTriangles(n - 1) \o [t \in 1..Len(local) |-> local[t] + offsets[n]]

\* C1: the buffer indices() returns is the concatenation, in set order, of each
\* polygon's triangle indices raised by offsets[i], and every index in it lies
\* in 0 .. totalVertexCount - 1.
C1_IndicesAreOffsetTriangles ==
  (Ready /\ indexCall.called) =>
    /\ indexCall.ret.data = OffsetTriangles(N)
    /\ \A t \in 1..Len(indexCall.ret.data) :
         indexCall.ret.data[t] >= 0 /\ indexCall.ret.data[t] < pointCount

\* C2: the buffer indices() returns is exactly as long as 3 times the number of
\* triangles the triangulator returns, summed over the polygons.
C2_IndexLengthIsTriangulated ==
  (Ready /\ indexCall.called) =>
    Len(indexCall.ret.data) = Len(OffsetTriangles(N))

\* C3: offsets has n + 1 entries, starts at 0, grows by each polygon's vertex
\* count, never decreases, and ends at pointCount, the count that sizes the
\* per-vertex buffers.
C3_OffsetsArePrefixSums ==
  Ready =>
    /\ Len(offsets) = N + 1
    /\ offsets[1] = 0
    /\ \A p \in 1..N :
         /\ offsets[p + 1] - offsets[p] = Len(forEachVertex(polygons[p]))
         /\ offsets[p + 1] >= offsets[p]
    /\ offsets[N + 1] = pointCount
    /\ Len(pickingColors.data) = 3 * offsets[N + 1]
    /\ IsDefined(positions) => Len(positions.data) = 3 * offsets[N + 1]
    /\ IsDefined(attributes.colors) => Len(attributes.colors.data) = 4 * offsets[N + 1]

C3_Witness ==
  Ready /\ N = 2 /\ offsets[2] > 0 /\ offsets[3] > offsets[2] /\ IsDefined(positions)

PositionNames == {"positions", "nextPositions", "positions64xyLow", "nextPositions64xyLow"}
EntriesPerVertex(name) ==
  IF name \in {"positions64xyLow", "nextPositions64xyLow"} THEN 2
  ELSE IF name = "colors" THEN 4 ELSE 3

HeightOf(p) == IF positionCall.extruded THEN p - 1 ELSE 0
ZOf(v) == IF Len(v) >= 3 THEN v[3] ELSE 0

\* C8: after updatePositions the position buffer holds, as float32,
\* (x, y, z + h) of every vertex at its slot in set, ring and in-ring order, a
\* missing z counting as 0; h is the one getHeight(i) result when extruded is
\* on, and 0 with getHeight not called (it may be null) when extruded is off.
C8_PositionsHoldVertices ==
  /\ (Ready /\ positionCall.called /\ positionCall.error = "none") =>
       /\ \A w \in Vertices :
            LET v == Ring(w[1], w[2])[w[3] + 1]
                s == Slot(w[1], w[2], w[3])
            IN  /\ At(positions.data, 3 * s) = fround(v[1])
                /\ At(positions.data, 3 * s + 1) = fround(v[2])
                /\ At(positions.data, 3 * s + 2) = fround(ZOf(v) + HeightOf(w[1]))
       /\ heightCalls = [p \in 1..N |-> IF positionCall.extruded THEN 1 ELSE 0]
  /\ (Ready /\ positionCall.called /\ ~positionCall.extruded) =>
       positionCall.error = "none"

C8_Witness ==
  /\ Ready /\ positionCall.called /\ positionCall.error = "none"
  /\ positionCall.extruded /\ N = 2 /\ Len(polygons[2].data) = 2
  /\ At(positions.data, 3 * Slot(2, 2, 0) + 2) = 2

\* C9: after updatePositions with extrusion on, in every ring the next-position
\* entry of vertex j is the position entry of vertex j + 1, that of the ring's
\* last vertex the position entry of the ring's first vertex, and the two
\* write cursors end together at 3 * pointCount.
C9_NextPositionsWrap ==
  (Ready /\ positionCall.called /\ positionCall.error = "none"
     /\ positionCall.extruded) =>
    /\ \A w \in Vertices :
         LET k == Len(Ring(w[1], w[2]))
             s == Slot(w[1], w[2], w[3])
             t == Slot(w[1], w[2], (w[3] + 1) % k)
         IN  \A d \in 0..2 :
               At(nextPositions.data, 3 * s + d) = At(positions.data, 3 * t + d)
    /\ positionCall.nextI = positionCall.i
    /\ positionCall.i = 3 * pointCount

C9_Witness ==
  /\ Ready /\ positionCall.called /\ positionCall.error = "none"
  /\ positionCall.extruded /\ N = 2 /\ Len(polygons[1].data) = 2
  /\ At(nextPositions.data, 3 * Slot(1, 2, 2)) = At(positions.data, 3 * Slot(1, 2, 0))
  /\ At(nextPositions.data, 3 * Slot(1, 2, 2)) # At(positions.data, 3 * Slot(1, 2, 2))

\* the 4 bytes of polygon p: the channels the accessor returned for it, as a
\* Uint8ClampedArray keeps them, the alpha 255 when missing or not finite
ExpectedColor(p) ==
  IF colorCall.getColor = "default" THEN <<0, 0, 0, 255>>
  ELSE LET c == colorOf(input[p]).v
       IN  <<ToUint8Clamp(c[1]), ToUint8Clamp(c[2]), ToUint8Clamp(c[3]),
             IF Len(c) >= 4 /\ NumberIsFinite(c[4]) THEN ToUint8Clamp(c[4]) ELSE 255>>

\* C10: after colors(getColor) the accessor has been called once per polygon
\* and every vertex slot of polygon i, from byte 4 * offsets[i] on, holds the 4
\* bytes of that result, a missing or non-finite alpha replaced by 255; without
\* an accessor every vertex is opaque black.
C10_ColorsBroadcast ==
  (Ready /\ colorCall.called) =>
    /\ colorCalls = [p \in 1..N |-> 1]
    /\ Len(attributes.colors.data) = 4 * pointCount
    /\ \A p \in 1..N : \A v \in offsets[p]..(offsets[p + 1] - 1) : \A d \in 0..3 :
         At(attributes.colors.data, 4 * v + d) = ExpectedColor(p)[d + 1]

C10_Witness ==
  /\ Ready /\ colorCall.called /\ colorCall.getColor = "data" /\ N = 2
  /\ Len(colorOf(input[1]).v) = 3 /\ ~NumberIsFinite(colorOf(input[2]).v[4])
  /\ At(attributes.colors.data, 4 * offsets[2] + 3) = 255

\* ===================================================================
\* The layer's index width, checked under SpecWidth
\* ===================================================================
\* Sets too large to enumerate point by point: a polygon is given by the
\* sizes of its rings, which is all the counts and the width guard read.
MaxWidthPolygons == 2
WidthSizes == {3, 21847, 21848, 65535, 65536, 70000}
WidthSets ==
  UNION {{[k \in 1..n |-> <<f[k]>>] : f \in [1..n -> WidthSizes]} :
           n \in 1..MaxWidthPolygons}

\* getPointCount and getTriangleCount on polygons given by their ring sizes
pointCountOfSizes(sets) == Sum([k \in 1..Len(sets) |-> Sum(sets[k])])
triangleCountOfSets(sets) ==
  Sum([k \in 1..Len(sets) |-> triangleCountOfSizes(sets[k])])

NoLayer(sizes) ==
  [stage |-> "start", sizes |-> sizes, IndexType |-> "undefined",
   pointCount |-> 0, indexCount |-> 0, error |-> "none", ret |-> "undefined"]

NoTesselator == Fresh /\ input = <<>> /\ colorData = <<>>
tesselator == <<phase, input, polygons, pointCount, attributes, colorData,
                DEFAULT_COLOR, positionCall, colorCall, indexCall, heightCalls,
                colorCalls, triangulations, indicesCalls>>

InitWidth ==
  /\ NoTesselator
  /\ probe \in {NoLayer(sizes) : sizes \in WidthSets}

\* SolidPolygonLayer.initializeState: the index type follows the GL extension
initializeState(OES_element_index_uint) ==
  /\ probe.stage = "start"
  /\ probe' = [probe EXCEPT
       !.stage = "initialized",
       !.IndexType = IF OES_element_index_uint THEN "Uint32Array" ELSE "Uint16Array"]
  /\ UNCHANGED tesselator

\* new PolygonTesselator({polygons, fp64}): no index type is taken, no index
\* is computed
ConstructWidth ==
  /\ probe.stage = "initialized"
  /\ probe' = [probe EXCEPT !.stage = "constructed",
                            !.pointCount = pointCountOfSizes(probe.sizes)]
  /\ UNCHANGED tesselator

\* attribute.value = polygonTesselator.indices(), which calls
\* calculateIndices({polygons, indexCount}): IndexType takes its default
IndicesWidth ==
  /\ probe.stage = "constructed"
  /\ LET indexCount == 3 * triangleCountOfSets(probe.sizes)
         overflow == indexOverflow(DefaultIndexType, indexCount)
     IN  probe' = [probe EXCEPT
           !.stage = "indexed",
           !.indexCount = indexCount,
           !.error = IF overflow THEN "Vertex count exceeds browser's limit" ELSE "none",
           !.ret = IF overflow THEN "undefined" ELSE DefaultIndexType]
  /\ UNCHANGED tesselator

NextWidth ==
  \/ \E OES_element_index_uint \in BOOLEAN : initializeState(OES_element_index_uint)
  \/ ConstructWidth
  \/ IndicesWidth

SpecWidth == InitWidth /\ [][NextWidth]_vars

\* C6: with the 16-bit index type chosen and more than 65535 vertices in the
\* set, building the indices fails with an overflow error; with at most 65535
\* vertices, or the 32-bit type chosen, no error is raised.
C6_OverflowRejected ==
  probe.stage = "indexed" =>
    ((probe.error # "none") <=>
       (probe.IndexType = "Uint16Array" /\ probe.pointCount > UINT16_MAX))

\* ===================================================================
\* The picking colours of large sets, checked under SpecPick
\* ===================================================================
\* calculatePickingColors' loop from polygon `first` of a set on, over the
\* part of the attribute that starts at that polygon's first vertex.
MaxPickPolygons == 3
MaxVertexCount == 2
PickStarts == {0, 254, 65534, TWO24 - 3}
PickCounts == UNION {[1..n -> 1..MaxVertexCount] : n \in 1..MaxPickPolygons}

NoPick(first, counts) ==
  [stage |-> "pick", first |-> first, counts |-> counts,
   polygonIndex |-> first, i |-> 0,
   attribute |-> NewArray("Uint8ClampedArray", 1, 3 * Sum(counts))]

InitPick ==
  /\ NoTesselator
  /\ probe \in {NoPick(first, counts) : first \in PickStarts, counts \in PickCounts}

\* one turn of polygons.forEach((polygon, polygonIndex) => ...)
PickStep ==
  /\ probe.stage = "pick"
  /\ probe.polygonIndex - probe.first < Len(probe.counts)
  /\ LET vertexCount == probe.counts[probe.polygonIndex - probe.first + 1]
     IN  probe' = [probe EXCEPT
           !.attribute = pickPolygon(@, probe.i, probe.polygonIndex, vertexCount),
           !.i = @ + 3 * vertexCount,
           !.polygonIndex = @ + 1]
  /\ UNCHANGED tesselator

NextPick == PickStep

SpecPick == InitPick /\ [][NextPick]_vars

\* the three bytes at vertex slot v, and the index a reader decodes from them
PickedBytes(v) ==
  << At(probe.attribute.data, 3 * v), At(probe.attribute.data, 3 * v + 1),
     At(probe.attribute.data, 3 * v + 2) >>
Decode(c) == c[1] + c[2] * 256 + c[3] * 65536 - 1
\* the slots of the k-th polygon picked
PickSlots(k) ==
  Sum(SubSeq(probe.counts, 1, k - 1)) .. (Sum(SubSeq(probe.counts, 1, k)) - 1)
Picked == 1..(probe.polygonIndex - probe.first)

\* C7 as claimed: at every vertex slot of every polygon index i the picking
\* bytes decode to i by r + g * 256 + b * 65536 - 1 and are never (0, 0, 0).
C7_PickingRoundTrip ==
  probe.stage = "pick" =>
    \A k \in Picked : \A v \in PickSlots(k) :
      /\ Decode(PickedBytes(v)) = probe.first + k - 1
      /\ PickedBytes(v) # <<0, 0, 0>>

\* C7 as amended: the same for every polygon index i below 2^24 - 1, the most
\* three bytes can tell apart once (0, 0, 0) is set aside.
C7_PickingRoundTripBelow ==
  probe.stage = "pick" =>
    \A k \in Picked : \A v \in PickSlots(k) :
      probe.first + k - 1 < TWO24 - 1 =>
        /\ Decode(PickedBytes(v)) = probe.first + k - 1
        /\ PickedBytes(v) # <<0, 0, 0>>

C7_Witness ==
  /\ probe.stage = "pick" /\ probe.first = 65534
  /\ probe.polygonIndex = 65537 /\ probe.counts = <<1, 2, 2>>
  /\ PickedBytes(4) = <<1, 0, 1>>

\* ===================================================================
\* Buffers across calls, checked under Spec
\* ===================================================================
LowNames == {"positions64xyLow", "nextPositions64xyLow"}

\* C11 as claimed: after any updatePositions calls the low buffers are
\* present, with 2 entries per vertex, exactly when the most recent call asked
\* for fp64.
C11_LowPresentIffLastFp64 ==
  (Ready /\ positionCall.called) =>
    \A name \in LowNames :
      /\ IsDefined(attributes[name]) <=> positionCall.fp64
      /\ IsDefined(attributes[name]) => Len(attributes[name].data) = 2 * pointCount

\* C11 as amended: the low buffers are present, with 2 entries per vertex,
\* exactly when some updatePositions call so far asked for fp64; an update
\* with fp64 off after one with fp64 on leaves them exposed.
C11_LowPresentIffEverFp64 ==
  Ready =>
    \A name \in LowNames :
      /\ IsDefined(attributes[name]) <=> positionCall.everFp64
      /\ IsDefined(attributes[name]) => Len(attributes[name].data) = 2 * pointCount

C11_Witness ==
  /\ Ready /\ pointCount > 0 /\ positionCall.called
  /\ positionCall.everFp64 /\ ~positionCall.fp64
  /\ IsDefined(positions64xyLow) /\ IsDefined(nextPositions64xyLow)

KeptNames == {"positions", "nextPositions", "colors", "pickingColors"}

\* C12: across updatePositions and colors calls each of the position,
\* next-position, colour and picking buffers, once allocated, stays the same
\* array (same identity, same type) of the same length, 3, 3, 4 and 3 entries
\* per vertex; the next-position buffer has that length also when extrusion
\* is off.
C12_BuffersKept ==
  /\ [](Ready =>
          /\ \A name \in KeptNames :
               IsDefined(attributes[name]) =>
                 Len(attributes[name].data) = EntriesPerVertex(name) * pointCount
          /\ positionCall.called =>
               /\ IsDefined(nextPositions)
               /\ Len(nextPositions.data) = 3 * pointCount)
  /\ [][\A name \in KeptNames :
          IsDefined(attributes[name]) =>
            /\ attributes'[name].gen = attributes[name].gen
            /\ attributes'[name].type = attributes[name].type
            /\ Len(attributes'[name].data) = Len(attributes[name].data)]_vars

C12_Witness ==
  /\ Ready /\ pointCount > 0
  /\ positionCall.repeated /\ ~positionCall.extruded /\ colorCall.called
  /\ \A name \in KeptNames : attributes[name].gen = 1
  /\ Len(nextPositions.data) = 3 * pointCount

\* C13: an updatePositions call with the arguments of the call before it
\* (same fp64, same extruded, same height accessor) leaves the position,
\* next-position and low buffers with the contents they had after that call.
C13_UpdatePositionsIdempotent ==
  [][positionCall'.repeated =>
       \A name \in PositionNames : attributes'[name] = attributes[name]]_vars

C13_Witness ==
  /\ Ready /\ positionCall.repeated /\ positionCall.error = "none"
  /\ positionCall.extruded /\ positionCall.fp64 /\ N = 2
  /\ \E k \in 1..Len(positions64xyLow.data) : positions64xyLow.data[k] # 0
  /\ \E k \in 1..Len(nextPositions.data) : nextPositions.data[k] # 0

\* a step of colors(), a step of updatePositions(), told by what they record
ColorsStep ==
  \/ colorCall' # colorCall
  \/ colorCalls' # colorCalls
  \/ attributes'.colors # attributes.colors
PositionsStep ==
  \/ positionCall' # positionCall
  \/ heightCalls' # heightCalls
  \/ \E name \in PositionNames : attributes'[name] # attributes[name]

\* C14: colors() changes only the colour buffer and updatePositions() only
\* the position, next-position and low buffers: each leaves the other group's
\* buffers, the picking-colour buffer, the normalized polygons and the cached
\* vertex count as they were.
C14_PassesKeepTheRest ==
  [][phase = "ready" =>
       /\ (ColorsStep \/ PositionsStep) =>
            /\ attributes'.pickingColors = attributes.pickingColors
            /\ polygons' = polygons
            /\ pointCount' = pointCount
       /\ ColorsStep => \A name \in PositionNames : attributes'[name] = attributes[name]
       /\ PositionsStep => attributes'.colors = attributes.colors]_vars

C14_Witness ==
  /\ Ready /\ N = 2 /\ colorCall.called /\ positionCall.called
  /\ positionCall.error = "none" /\ positionCall.fp64
  /\ \E k \in 1..Len(attributes.colors.data) : attributes.colors.data[k] # 0
  /\ \E k \in 1..Len(positions.data) : positions.data[k] # 0
  /\ pickingColors = calculatePickingColors(polygons, pointCount)

\* some ring of some polygon of the set has fewer than 3 points
ShortRing(set) ==
  \E k \in 1..Len(set) : \E r \in 1..Len(Rings(set[k])) : Len(Rings(set[k])[r]) < 3

\* C15: the constructor fails exactly on a PolygonSet with a ring of fewer
\* than 3 points, and the failure aborts it as a whole: no polygon list, vertex
\* count, picking colours or any other buffer is produced for the remaining
\* polygons, and no later call finds a Tesselator to act on.
C15_ShortRingAborts ==
  /\ phase # "new" => (phase = "failed" <=> ShortRing(input))
  /\ phase = "failed" =>
       /\ polygons = <<>> /\ pointCount = 0
       /\ \A name \in AttributeNames : ~IsDefined(attributes[name])
       /\ ~positionCall.called /\ ~colorCall.called /\ ~indexCall.called

C15_Witness ==
  /\ phase = "failed" /\ Len(input) = 2
  /\ \E k \in 1..2 : ~InvalidGeometry(input[k])
  /\ \E k \in 1..2 : Len(input[k].data) = 2

\* |a - b| <= 1e-5 * |b|
Within1e5(a, b) == 100000 * Abs(a - b) <= Abs(b)

\* C16: after updatePositions with fp64 on, the low buffer holds at every
\* vertex's slot (2 entries per vertex, in the order of the positions) the
\* float32 of x - float32(x) and of y - float32(y), and the float32 in the
\* position buffer plus the low value gives back x and y within 1e-5
\* relative error.
C16_LowPartsReconstruct ==
  (Ready /\ positionCall.called /\ positionCall.error = "none" /\ positionCall.fp64) =>
    /\ Len(positions64xyLow.data) = 2 * pointCount
    /\ \A w \in Vertices :
         LET v == Ring(w[1], w[2])[w[3] + 1]
             s == Slot(w[1], w[2], w[3])
         IN  \A d \in 0..1 :
               /\ At(positions64xyLow.data, 2 * s + d)
                    = fround(v[d + 1] - fround(v[d + 1]))
               /\ Within1e5(At(positions.data, 3 * s + d)
                              + At(positions64xyLow.data, 2 * s + d), v[d + 1])

C16_Witness ==
  /\ Ready /\ positionCall.called /\ positionCall.error = "none" /\ positionCall.fp64
  /\ N = 2
  /\ \E w \in Vertices :
       /\ Ring(w[1], w[2])[w[3] + 1][1] = TWO24 + 1
       /\ At(positions.data, 3 * Slot(w[1], w[2], w[3])) = TWO24
       /\ At(positions64xyLow.data, 2 * Slot(w[1], w[2], w[3])) = 1

\* ===================================================================
\* SolidPolygonLayer.updateState, checked under SpecLayer
\* ===================================================================
\* The flags are JS values: "true", "false", and "undefined" for a prop of
\* the empty oldProps of the first update.
JsBooleans == {"true", "false"}
\* !v
jsNot(v) == IF v = "true" THEN "false" ELSE "true"
\* a !== b
strictNotEqual(a, b) == a # b

FlagProps == [extruded : JsBooleans, fp64 : JsBooleans, wireframe : JsBooleans]
NoProps == [extruded |-> "undefined", fp64 |-> "undefined", wireframe |-> "undefined"]
\* changeFlags.updateTriggersChanged: false, or the trigger that changed
TriggerChanges == {"none", "all", "getPolygon", "getElevation"}

\* the layer after initializeState: no update yet, no tesselator
NewLayer ==
  [stage |-> "layer", updated |-> FALSE, props |-> NoProps, oldProps |-> NoProps,
   invalidated |-> {}, invalidatedAll |-> FALSE, modelsChanged |-> FALSE,
   polygonTesselator |-> FALSE, positionsUpdated |-> FALSE]

InitLayer ==
  /\ NoTesselator
  /\ probe = NewLayer

\* updateGeometry's conditions
geometryConfigChanged(dataChanged, updateTriggersChanged) ==
  dataChanged \/ updateTriggersChanged \in {"all", "getPolygon"}
shouldUpdatePositions(props, oldProps, dataChanged, updateTriggersChanged) ==
  \/ geometryConfigChanged(dataChanged, updateTriggersChanged)
  \/ updateTriggersChanged = "getElevation"
  \/ strictNotEqual(props.extruded, oldProps.extruded)
  \/ strictNotEqual(props.fp64, oldProps.fp64)

\* const regenerateModels = ...
regenerateModels(props, oldProps) ==
  \/ strictNotEqual(props.fp64, oldProps.fp64)
  \/ strictNotEqual(props.extruded, oldProps.extruded)
  \/ strictNotEqual(props.wireframe, oldProps.wireframe)

\* the triggers updateState passes to attributeManager.invalidate
invalidatedTriggers(props, oldProps) ==
  (IF strictNotEqual(props.extruded, jsNot(oldProps.extruded)) THEN {"extruded"} ELSE {})
    \cup
  (IF strictNotEqual(props.fp64, jsNot(oldProps.fp64)) THEN {"fp64"} ELSE {})

\* layer.updateState({props, oldProps, changeFlags}); the first update of a
\* layer comes with its data
UpdateState(props, dataChanged, updateTriggersChanged) ==
  /\ probe.stage = "layer"
  /\ probe.updated \/ dataChanged
  /\ LET oldProps == IF probe.updated THEN probe.props ELSE NoProps
         rebuilt == geometryConfigChanged(dataChanged, updateTriggersChanged)
     IN  probe' = [probe EXCEPT
           !.updated = TRUE,
           !.props = props,
           !.oldProps = oldProps,
           !.polygonTesselator = @ \/ rebuilt,
           !.invalidatedAll = rebuilt,
           !.positionsUpdated =
              shouldUpdatePositions(props, oldProps, dataChanged, updateTriggersChanged),
           !.modelsChanged = @ \/ regenerateModels(props, oldProps),
           !.invalidated = invalidatedTriggers(props, oldProps)]
  /\ UNCHANGED tesselator

\* layer.updateAttributes(props): the attributes are handed to the models
\* and the modelsChanged flag is cleared
UpdateAttributes ==
  /\ probe.stage = "layer"
  /\ probe.updated
  /\ probe.modelsChanged
  /\ probe' = [probe EXCEPT !.modelsChanged = FALSE]
  /\ UNCHANGED tesselator

NextLayer ==
  \/ \E props \in FlagProps, dataChanged \in BOOLEAN,
        updateTriggersChanged \in TriggerChanges :
       UpdateState(props, dataChanged, updateTriggersChanged)
  \/ UpdateAttributes

SpecLayer == InitLayer /\ [][NextLayer]_vars

\* C17: updateState invalidates the 'extruded' trigger exactly when
\* props.extruded differs from oldProps.extruded, and the 'fp64' trigger
\* exactly when props.fp64 differs from oldProps.fp64.
C17_InvalidatedIffChanged ==
  (probe.stage = "layer" /\ probe.updated) =>
    /\ "extruded" \in probe.invalidated <=> probe.props.extruded # probe.oldProps.extruded
    /\ "fp64" \in probe.invalidated <=> probe.props.fp64 # probe.oldProps.fp64

\* ---------------------------------- MapController, checked under SpecController
\* Screen and angle quantities are integers; a quotient of two of them is the
\* exact fraction <<numerator, denominator>> with a positive denominator.
Rat(n, d) == IF d < 0 THEN <<-n, -d>> ELSE <<n, d>>
\* a <= b
RatLeq(a, b) == a[1] * b[2] <= b[1] * a[2]

\* export const MAPBOX_LIMITS; the latitude limits are read by the viewport only
MAPBOX_LIMITS == [minZoom |-> 0, maxZoom |-> 20, minPitch |-> 0, maxPitch |-> 60]

PITCH_MOUSE_THRESHOLD == 5
\* const PITCH_ACCEL = 1.2
PITCH_ACCEL == <<6, 5>>

\* Object.assign({}, MAPBOX_LIMITS, viewState.props): the props carry no
\* limits, or maxima of their own
ViewStates ==
  [zoom : {-1, 16, 20, 21}, pitch : {-1, 50, 60, 61}, bearing : {0, 190},
   longitude : {0, 190},
   limits : {MAPBOX_LIMITS, [MAPBOX_LIMITS EXCEPT !.maxZoom = 15, !.maxPitch = 45]}]

\* a controller and the record of its last call
NewController(dragRotate, width, height) ==
  [stage |-> "controller", dragRotate |-> dragRotate, width |-> width,
   height |-> height, call |-> "none",
   viewState |-> [zoom |-> 0, pitch |-> 0, bearing |-> 0, longitude |-> 0,
                  limits |-> MAPBOX_LIMITS],
   threw |-> FALSE, carried |-> [zoom |-> 0, pitch |-> 0],
   returned |-> [zoom |-> 0, pitch |-> 0],
   event |-> [deltaX |-> 0, deltaY |-> 0, centerY |-> 0],
   handled |-> FALSE, rotateCalled |-> FALSE,
   parameters |-> [deltaScaleX |-> <<0, 1>>, deltaScaleY |-> <<0, 1>>],
   newMapState |-> [failed |-> FALSE, bearing |-> <<0, 1>>, pitch |-> <<0, 1>>]]

InitController ==
  /\ NoTesselator
  /\ \E dragRotate \in BOOLEAN, width \in {10, 20} :
       probe = NewController(dragRotate, width, 20)

\* props.x = x > max ? max : x;
\* props.x = x < min ? min : x;
\* as lines 224-225 do for the zoom and lines 228-229 for the pitch
clamp(x, min, max) ==
  LET first == IF x > max THEN max ELSE x
      second == IF x < min THEN min ELSE x
  IN  second

\* controller.getViewportProps(viewState).  Out of [-180, 180] the longitude
\* and the bearing go through mod(), which the module neither defines nor
\* imports: the call throws.  carried are the zoom and pitch handed to
\* _getLatitudeRange; zoomGrowth is the log2(height / (bottomY - topY)) the
\* latitude-range step adds to the zoom, as the viewport decides.
GetViewportProps(viewState, zoomGrowth) ==
  /\ probe.stage = "controller"
  /\ LET limits == viewState.limits
         threw == \/ viewState.longitude < -180 \/ viewState.longitude > 180
                  \/ viewState.bearing < -180 \/ viewState.bearing > 180
         zoom == clamp(viewState.zoom, limits.minZoom, limits.maxZoom)
         pitch == clamp(viewState.pitch, limits.minPitch, limits.maxPitch)
     IN  probe' = [NewController(probe.dragRotate, probe.width, probe.height) EXCEPT
           !.call = "getViewportProps",
           !.viewState = viewState,
           !.threw = threw,
           !.carried = IF threw THEN @ ELSE [zoom |-> zoom, pitch |-> pitch],
           !.returned = IF threw THEN @
                        ELSE [zoom |-> zoom + zoomGrowth, pitch |-> pitch]]
  /\ UNCHANGED tesselator

\* the {deltaScaleX, deltaScaleY} _onPanRotate passes to rotate, with
\* startY = centerY - deltaY; 1 - centerY / startY is (startY - centerY) / startY
panParameters(width, height, deltaX, deltaY, centerY) ==
  LET startY == centerY - deltaY
      deltaScaleY ==
        IF deltaY > 0
        THEN IF Abs(height - startY) > PITCH_MOUSE_THRESHOLD
             THEN Rat(deltaY * PITCH_ACCEL[1], (startY - height) * PITCH_ACCEL[2])
             ELSE <<0, 1>>
        ELSE IF deltaY < 0 /\ startY > PITCH_MOUSE_THRESHOLD
             THEN Rat(startY - centerY, startY)
             ELSE <<0, 1>>
  IN  [deltaScaleX |-> Rat(deltaX, width),
       deltaScaleY |-> IF RatLeq(deltaScaleY, <<-1, 1>>) THEN <<-1, 1>>
                       ELSE IF RatLeq(<<1, 1>>, deltaScaleY) THEN <<1, 1>>
                       ELSE deltaScaleY]

\* the two assertions of rotate
rotateAsserts(parameters) ==
  /\ RatLeq(<<-1, 1>>, parameters.deltaScaleX)
  /\ RatLeq(parameters.deltaScaleX, <<1, 1>>)
  /\ RatLeq(<<-1, 1>>, parameters.deltaScaleY)
  /\ RatLeq(parameters.deltaScaleY, <<1, 1>>)

\* rotate(viewState, {deltaScaleX, deltaScaleY, startViewState}), with its own
\* minPitch = 0 and maxPitch = 60; the sums are taken over the denominator of
\* the scale
rotate(parameters, startViewState) ==
  LET x == parameters.deltaScaleX
      y == parameters.deltaScaleY
  IN  IF ~rotateAsserts(parameters)
      THEN [failed |-> TRUE, bearing |-> <<0, 1>>, pitch |-> <<0, 1>>]
      ELSE [failed |-> FALSE,
            bearing |-> <<startViewState.bearing * x[2] + 180 * x[1], x[2]>>,
            pitch |->
              IF y[1] > 0
              THEN <<startViewState.pitch * y[2] + y[1] * (60 - startViewState.pitch),
                     y[2]>>
              ELSE IF y[1] < 0
                   THEN <<startViewState.pitch * y[2] - y[1] * (0 - startViewState.pitch),
                          y[2]>>
                   ELSE <<startViewState.pitch, 1>>]

\* controller._onPanRotate(event); startViewState is the start view state the
\* controller adds to the reducer parameters
OnPanRotate(event, startViewState) ==
  /\ probe.stage = "controller"
  /\ probe' = [NewController(probe.dragRotate, probe.width, probe.height) EXCEPT
       !.call = "_onPanRotate",
       !.event = event,
       !.handled = probe.dragRotate,
       !.rotateCalled = probe.dragRotate,
       !.parameters =
          IF probe.dragRotate
          THEN panParameters(probe.width, probe.height,
                             event.deltaX, event.deltaY, event.centerY)
          ELSE @,
       !.newMapState =
          IF probe.dragRotate
          THEN rotate(panParameters(probe.width, probe.height,
                                    event.deltaX, event.deltaY, event.centerY),
                      startViewState)
          ELSE @]
  /\ UNCHANGED tesselator

NextController ==
  \/ \E viewState \in ViewStates, zoomGrowth \in {0, 1} :
       GetViewportProps(viewState, zoomGrowth)
  \* the pan events: deltaX, deltaY and the y of the pointer centre
  \/ \E event \in [deltaX : {-30, 5, 20, 30}, deltaY : {-8, 0, 3, 8},
                    centerY : {-2, 4, 14, 20}],
        startViewState \in [bearing : {0, 170}, pitch : {0, 30}] :
       OnPanRotate(event, startViewState)

SpecController == InitController /\ [][NextController]_vars

\* C18: whenever getViewportProps returns, the returned pitch lies in
\* [minPitch, maxPitch] and the zoom handed to the latitude-range step lies in
\* [minZoom, maxZoom]; a pitch above maxPitch comes back as maxPitch and a
\* zoom above maxZoom is carried as maxZoom.
C18_ViewportPropsClamped ==
  (probe.stage = "controller" /\ probe.call = "getViewportProps" /\ ~probe.threw) =>
    LET limits == probe.viewState.limits
    IN  /\ limits.minPitch <= probe.returned.pitch
        /\ probe.returned.pitch <= limits.maxPitch
        /\ limits.minZoom <= probe.carried.zoom
        /\ probe.carried.zoom <= limits.maxZoom
        /\ probe.viewState.pitch > limits.maxPitch =>
             probe.returned.pitch = limits.maxPitch
        /\ probe.viewState.zoom > limits.maxZoom =>
             probe.carried.zoom = limits.maxZoom

\* C19: a pan handled by _onPanRotate with dragRotate enabled passes rotate
\* parameters that satisfy both of its assertions, so rotate does not fail;
\* with dragRotate disabled the handler returns false and rotate is not called.
C19_RotateAssertionsHold ==
  (probe.stage = "controller" /\ probe.call = "_onPanRotate") =>
    IF probe.dragRotate
    THEN /\ probe.rotateCalled
         /\ rotateAsserts(probe.parameters)
         /\ ~probe.newMapState.failed
    ELSE ~probe.handled /\ ~probe.rotateCalled

\* ------------------------------- the caller's colours, checked under Spec
\* C20: a colors(getColor) call leaves every colour the accessor returns as
\* it was, in length and in elements, and the shared default colour stays
\* (0, 0, 0, 255).
C20_ColorsLeavesAccessorValues ==
  [][(phase = "ready" /\ ColorsStep) =>
       /\ \A k \in 1..Len(colorData) :
            /\ Len(colorData'[k].v) = Len(colorData[k].v)
            /\ colorData'[k].v = colorData[k].v
       /\ DEFAULT_COLOR' = DEFAULT_COLOR_INIT]_vars

\* --------------------------- the trip-decoder worker, checked under SpecWorker
\* (demo/src/static/workers/hero-data-decoder.js)
\* A line of text is <<>> when empty, else <<startTime, endTime>>: the times
\* its characters encode.  A trip is [startTime, endTime, segments], segments
\* being the times of its points.  FLUSH_LIMIT is 5000 in the worker; the
\* model runs it with a limit a few lines reach.
MaxMessages == 2
FLUSH_LIMIT == 3

\* decodeTrip(l, segments): the points run from startTime to endTime
decodeTrip(l) == [startTime |-> l[1], endTime |-> l[2], segments |-> <<l[1], l[2]>>]

\* shiftTrip(trip, offset): cutoffIndex is the last point earlier than
\* -TRAIL_LENGTH, 0 without one
shiftTrip(trip, offset, TRAIL_LENGTH) ==
  LET n == Len(trip.segments)
      cutoffIndex ==
        LET early == {i \in 0..(n - 1) : trip.segments[i + 1] + offset < -TRAIL_LENGTH}
        IN  IF early = {} THEN 0 ELSE CHOOSE i \in early : \A j \in early : j <= i
  IN  [startTime |-> trip.startTime + offset,
       endTime |-> trip.endTime + offset,
       segments |-> [k \in 1..(n - cutoffIndex) |->
                       trip.segments[k + cutoffIndex] + offset]]

\* while (trip.endTime > LOOP_LENGTH - TRAIL_LENGTH) trip = shiftTrip(...):
\* the copies pushed after the trip
RECURSIVE shiftedCopies(_, _, _)
shiftedCopies(trip, LOOP_LENGTH, TRAIL_LENGTH) ==
  IF trip.endTime > LOOP_LENGTH - TRAIL_LENGTH
  THEN <<shiftTrip(trip, -LOOP_LENGTH, TRAIL_LENGTH)>> \o
       shiftedCopies(shiftTrip(trip, -LOOP_LENGTH, TRAIL_LENGTH),
                     LOOP_LENGTH, TRAIL_LENGTH)
  ELSE <<>>

flushBug(w) ==
  \* (mutant) the pending result is posted and kept
  [w EXCEPT !.posted = Append(@, [action |-> "add", data |-> w.result,
                                  meta |-> [trips |-> w.tripsCount,
                                            vertices |-> w.vertexCount]])]

\* function flush()
flush(w) ==
  [w EXCEPT !.posted = Append(@, [action |-> "add", data |-> w.result,
                                  meta |-> [trips |-> w.tripsCount,
                                            vertices |-> w.vertexCount]]),
            !.result = <<>>]

\* lines.forEach(function(l, i) {...}) from line i on: the first line that
\* is not empty gives the segments, every later one a trip and its copies;
\* pending notes the length of result after each line
RECURSIVE forEachLine(_, _, _)
forEachLine(w, lines, i) ==
  IF i > Len(lines) THEN w
  ELSE
    LET trip == decodeTrip(lines[i])
        trips == <<trip>> \o shiftedCopies(trip, w.LOOP_LENGTH, w.TRAIL_LENGTH)
        pushed ==
          [w EXCEPT !.result = @ \o trips,
                    !.appended = @ \o trips,
                    !.tripsCount = @ + Len(trips),
                    !.vertexCount =
                       @ + Sum([k \in 1..Len(trips) |-> Len(trips[k].segments)])]
        after ==
          IF lines[i] = <<>> THEN w
          ELSE IF ~w.segments THEN [w EXCEPT !.segments = TRUE]
          ELSE IF Len(pushed.result) >= FLUSH_LIMIT THEN flush(pushed)
          ELSE pushed
    IN  forEachLine([after EXCEPT !.pending = Append(@, Len(after.result))],
                    lines, i + 1)

\* the worker as its script leaves it; loop and trail come from the query of
\* its URL.  appended, pending, events are the history the claims speak of.
InitWorker ==
  /\ NoTesselator
  /\ \E LOOP_LENGTH \in {3, 4} :
       probe = [stage |-> "worker", LOOP_LENGTH |-> LOOP_LENGTH, TRAIL_LENGTH |-> 1,
                segments |-> FALSE, result |-> <<>>, vertexCount |-> 0,
                tripsCount |-> 0, posted |-> <<>>,
                appended |-> <<>>, pending |-> <<>>, events |-> <<>>]

\* onmessage = function(e) {...} with e.data = {text, event}; lines is
\* text.split('\n')
OnMessage(lines, event) ==
  /\ probe.stage = "worker"
  /\ Len(probe.events) < MaxMessages
  /\ \E w \in {forEachLine([probe EXCEPT !.pending = <<>>,
                                         !.events = Append(@, event)], lines, 1)} :
       probe' = IF event = "load"
                THEN [flush(w) EXCEPT !.posted = Append(@, [action |-> "end"])]
                ELSE w
  /\ UNCHANGED tesselator

NextWorker ==
  \E lines \in UNION {[1..n -> {<<>>, <<0, 2>>, <<5, 9>>}] : n \in 1..2},
     event \in {"progress", "load"} :
    OnMessage(lines, event)

SpecWorker == InitWorker /\ [][NextWorker]_vars

\* the trips of the 'add' messages, in the order they were posted
RECURSIVE PostedTrips(_)
PostedTrips(posted) ==
  IF posted = <<>> THEN <<>>
  ELSE (IF Head(posted).action = "add" THEN Head(posted).data ELSE <<>>)
         \o PostedTrips(Tail(posted))
\* how many messages of a sequence are e
CountOf(messages, e) == Cardinality({k \in 1..Len(messages) : messages[k] = e})
WorkerLoaded ==
  /\ probe.stage = "worker"
  /\ probe.events # <<>>
  /\ probe.events[Len(probe.events)] = "load"

\* C21 (as stated): after any sequence of messages whose last has event
\* 'load', the 'add' messages hold every appended trip exactly once in append
\* order, result held fewer than FLUSH_LIMIT trips after each line, and 'end'
\* has been posted once, after the last 'add'.
C21_EndPostedOnce ==
  WorkerLoaded =>
    /\ PostedTrips(probe.posted) = probe.appended
    /\ \A k \in 1..Len(probe.pending) : probe.pending[k] < FLUSH_LIMIT
    /\ CountOf([k \in 1..Len(probe.posted) |-> probe.posted[k].action], "end") = 1
    /\ probe.posted[Len(probe.posted)].action = "end"

\* C21 (amended): at any time the 'add' messages followed by the pending
\* result are the appended trips in append order, and result held fewer than
\* FLUSH_LIMIT trips after each line; after a 'load' message nothing is
\* pending and the last two messages posted are an 'add' and the 'end'; 'end'
\* has been posted once per 'load' message, so once when only the last
\* message has event 'load'.
C21_EndPostedPerLoad ==
  probe.stage = "worker" =>
    /\ PostedTrips(probe.posted) \o probe.result = probe.appended
    /\ \A k \in 1..Len(probe.pending) : probe.pending[k] < FLUSH_LIMIT
    /\ CountOf([k \in 1..Len(probe.posted) |-> probe.posted[k].action], "end")
         = CountOf(probe.events, "load")
    /\ WorkerLoaded =>
         /\ probe.result = <<>>
         /\ Len(probe.posted) >= 2
         /\ probe.posted[Len(probe.posted)].action = "end"
         /\ probe.posted[Len(probe.posted) - 1].action = "add"

\* a 'progress' message whose line reached the limit and was flushed, then a
\* 'load' message that flushed the rest, with loop-shifted copies among the trips
C21_Witness ==
  /\ WorkerLoaded
  /\ probe.events = <<"progress", "load">>
  /\ Len(probe.posted) = 3
  /\ probe.posted[1].action = "add" /\ Len(probe.posted[1].data) >= FLUSH_LIMIT
  /\ probe.posted[2].action = "add" /\ probe.posted[2].data # <<>>
  /\ \E k \in 1..Len(probe.appended) : probe.appended[k].startTime < 0

====
